---- MODULE Spec2Model ----
(***************************************************************************)
(* Model of the flight-price monitor (src/monitor_passagens.py): the alert *)
(* decision rule deve_alertar, the cheapest-offer selector                 *)
(* find_cheapest_offer, and the sequential run main / process_destino with *)
(* its collaborators (token request, search with retry, Telegram send,    *)
(* cooldown file, history log).  Further parts: the days-to-departure     *)
(* buckets and the HTTP functions of the same script, the baselines build *)
(* (src/build_baselines.py), and the workflow monitor                     *)
(* (src/.github/workflows/monitor_passagens.py): its threaded scrape and  *)
(* its decision _find_opportunities.                                       *)
(*                                                                         *)
(* Prices are integers (currency units).  A Python value is a record      *)
(* [t, v]: t = "num" carries the number v, t = "inf" is float("inf"),      *)
(* t = "none" is None and t = "text" is a non-numeric string.              *)
(* MIN_DISCOUNT_PCT is held in hundredths (25 stands for 0.25).            *)
(***************************************************************************)
EXTENDS Integers, Sequences, FiniteSets, TLC

VARIABLES
    MAX_PRECO_PP,       \* module global, monitor_passagens.py:92
    MIN_DISCOUNT_PCT,   \* module global, monitor_passagens.py:93 (hundredths)
    arg_preco_atual,    \* argument of the deve_alertar call under study
    arg_melhor_anterior,\* argument of the deve_alertar call under study
    ret_deve_alertar,   \* what that call returned (NotCalled before the call)
    arg_payload,        \* argument of the find_cheapest_offer call under study
    ret_find_cheapest,  \* what that call returned (NotCalled before the call)
    credentials,        \* CLIENT_ID and CLIENT_SECRET are both set
    telegram_configured,\* TELEGRAM_TOKEN and TELEGRAM_CHAT_ID are both set
    baselines,          \* content of data/baselines.json
    DESTINOS,           \* Config.DESTINOS, from the environment
    pc,                 \* where the run is: start, loop, done, exit (sys.exit(1))
                        \* or crashed (an exception nothing caught)
    crash,              \* the exception that ended the run ("none" otherwise)
    runs,               \* how many runs have been started
    now,                \* datetime.utcnow(), in hours
    dest_i,             \* index into Config.DESTINOS of main's loop
    date_j,             \* index into gerar_datas() of process_destino's loop
    melhores,           \* main's dict of the best price per destination
    http_used,          \* some HTTP request has been issued to the vendor
    telegram,           \* what the last loop body did about the notification
    last_alerts,        \* content of data/last_alerts.json
    history,            \* rows of data/history.csv
    locals,             \* process_destino's local variables at the end of the
                        \* loop body just run (NoLocals before the first)
    arg_dep,            \* departure day of the bucket computation under study
    arg_collected,      \* collection day of that computation
    ret_bucket,         \* its days-to-departure and bucket label
    ret_keys,           \* the baseline key build_baselines writes for a row of
                        \* those days and the one the monitor looks up
    arg_answers,        \* what the vendor answers to the HTTP calls under study
    arg_body,           \* the JSON body of its 200 responses
    ret_request,        \* what _request_with_retry did with those answers
    ret_buscar,         \* what buscar_passagens did with them
    ret_token,          \* what get_token did with the first of them
    ret_search,         \* what two calls of the workflow monitor's
                        \* search_roundtrip_get for one key did with them
    arg_log,            \* rows of history.csv given to build_baselines
    arg_log2,           \* the same rows in another order, given to a second build
    arg_days,           \* the days on which the two builds run
    ret_baselines,      \* the baselines the two builds wrote
    wf_pc,              \* workflow monitor: where each submitted search stands
    wf_res,             \* workflow monitor: what each search returned or raised
    wf_token,           \* AmadeusAPI._token is set (and not expired)
    wf_posts,           \* token requests sent by the run's threads
    wf_cache,           \* keys of Cache._api_cache
    wf_obs,             \* observacoes, the list scrape builds
    wf_main,            \* the main thread: collecting, returned or exited
    arg_obs,            \* workflow monitor: the observations of the run at hand
    arg_hist,           \* the rows History.load read at start
    arg_limits,         \* Config.MAX_PER_DEST and Config.MAX_STOPOVERS
    ret_opps            \* what _find_opportunities returned for them

fnVars == <<arg_preco_atual, arg_melhor_anterior, ret_deve_alertar,
            arg_payload, ret_find_cheapest>>
cfgVars == <<MAX_PRECO_PP, MIN_DISCOUNT_PCT>>
envVars == <<credentials, telegram_configured, baselines, DESTINOS>>
bucketVars == <<arg_dep, arg_collected, ret_bucket, ret_keys>>
httpVars == <<arg_answers, arg_body, ret_request, ret_buscar, ret_token, ret_search>>
buildVars == <<arg_log, arg_log2, arg_days, ret_baselines>>
wfVars == <<wf_pc, wf_res, wf_token, wf_posts, wf_cache, wf_obs, wf_main>>
oppVars == <<arg_obs, arg_hist, arg_limits, ret_opps>>
callVars == <<bucketVars, httpVars, buildVars, wfVars, oppVars>>
runVars == <<pc, crash, runs, now, dest_i, date_j, melhores, http_used, telegram,
             last_alerts, history, locals>>

----------------------------------------------------------------------------
(* Python values *)

Num(n) == [t |-> "num", v |-> n]
Inf == [t |-> "inf", v |-> 0]
None == [t |-> "none", v |-> 0]
Text == [t |-> "text", v |-> 0]
NotCalled == [t |-> "not called", v |-> 0]

Max(a, b) == IF a >= b THEN a ELSE b
Min(a, b) == IF a <= b THEN a ELSE b

\* n / d (d > 0) rounded to the nearest integer, ties to even: round().
RoundHalfEven(n, d) ==
    LET q == n \div d
        r == n - q * d
    IN  IF 2 * r < d THEN q
        ELSE IF 2 * r > d THEN q + 1
        ELSE IF q % 2 = 0 THEN q ELSE q + 1

----------------------------------------------------------------------------
(* Bounds and input sets *)

MaxPriceHundreds == 20
MaxOffers == 3
MaxRuns == 3
MaxDay == 100
MaxLogRows == 3
MaxObs == 3

DEFAULT_MAX_PRECO_PP == 1200
DEFAULT_MIN_DISCOUNT_PCT == 25

\* Values the tests and the scenarios give the two globals.
CapValues == {10, 1000, DEFAULT_MAX_PRECO_PP}
DiscountValues == {20, DEFAULT_MIN_DISCOUNT_PCT}

PriceGrid == {100 * k : k \in 0..MaxPriceHundreds}
PriceNumbers == PriceGrid \cup {-500, -5, 10, 11, 70, 75, 80, 1201}
PriceInputs == {Num(n) : n \in PriceNumbers} \cup {None, Text}
BestInputs == {Num(n) : n \in PriceNumbers} \cup {None, Inf}

----------------------------------------------------------------------------
(* deve_alertar *)

\* f"{desconto:.0%}" for desconto = n / d: the percentage, rounded.
FormatPct(n, d) ==
    IF d < 0 THEN RoundHalfEven(-(100 * n), -d) ELSE RoundHalfEven(100 * n, d)

\* desconto >= MIN_DISCOUNT_PCT for desconto = (melhor - preco) / melhor,
\* melhor # 0; dividing by a negative melhor turns the comparison around.
DescontoAtinge(preco, melhor) ==
    IF melhor > 0
    THEN 100 * (melhor - preco) >= MIN_DISCOUNT_PCT * melhor
    ELSE 100 * (melhor - preco) <= MIN_DISCOUNT_PCT * melhor

Motivo(kind, n) == [kind |-> kind, n |-> n]
Retorno(alert, motivo) == [t |-> "returned", alert |-> alert, motivo |-> motivo]

\* Rule 2 of deve_alertar, reached with preco_atual > MAX_PRECO_PP.
RegraQueda(preco, melhor_anterior) ==
    IF melhor_anterior.t = "num" /\ melhor_anterior.v # 0
       /\ DescontoAtinge(preco, melhor_anterior.v)
    THEN Retorno(TRUE, Motivo("queda",
                     FormatPct(melhor_anterior.v - preco, melhor_anterior.v)))
    ELSE Retorno(FALSE, Motivo("sem queda significativa", 0))

mut_deve_alertar_queda_primeiro(preco_atual, melhor_anterior) ==
    IF preco_atual.t # "num"
    THEN Retorno(FALSE, Motivo("valor invalido", 0))
    ELSE IF RegraQueda(preco_atual.v, melhor_anterior).alert
    THEN RegraQueda(preco_atual.v, melhor_anterior)
    ELSE IF preco_atual.v <= MAX_PRECO_PP
    THEN Retorno(TRUE, Motivo("teto", MAX_PRECO_PP))
    ELSE RegraQueda(preco_atual.v, melhor_anterior)

mut_deve_alertar_queda_estrita(preco_atual, melhor_anterior) ==
    IF preco_atual.t # "num"
    THEN Retorno(FALSE, Motivo("valor invalido", 0))
    ELSE IF preco_atual.v <= MAX_PRECO_PP
    THEN Retorno(TRUE, Motivo("teto", MAX_PRECO_PP))
    ELSE IF melhor_anterior.t = "num" /\ melhor_anterior.v # 0
            /\ DescontoAtinge(preco_atual.v, melhor_anterior.v)
            /\ 100 * (melhor_anterior.v - preco_atual.v)
                   # MIN_DISCOUNT_PCT * melhor_anterior.v
    THEN RegraQueda(preco_atual.v, melhor_anterior)
    ELSE Retorno(FALSE, Motivo("sem queda significativa", 0))

mut_deve_alertar_sem_guarda_zero(preco_atual, melhor_anterior) ==
    IF preco_atual.t # "num"
    THEN Retorno(FALSE, Motivo("valor invalido", 0))
    ELSE IF preco_atual.v <= MAX_PRECO_PP
    THEN Retorno(TRUE, Motivo("teto", MAX_PRECO_PP))
    ELSE IF melhor_anterior.t = "num" /\ melhor_anterior.v = 0
    THEN [t |-> "raised", alert |-> FALSE, motivo |-> Motivo("ZeroDivisionError", 0)]
    ELSE RegraQueda(preco_atual.v, melhor_anterior)

\* float(preco_atual) raises for None and for non-numeric text; the function
\* then returns (False, "valor invalido").  Rule 1 (cap) comes before rule 2.
deve_alertar(preco_atual, melhor_anterior) ==
    IF preco_atual.t # "num"
    THEN Retorno(FALSE, Motivo("valor invalido", 0))
    ELSE IF preco_atual.v <= MAX_PRECO_PP
    THEN Retorno(TRUE, Motivo("teto", MAX_PRECO_PP))
    ELSE RegraQueda(preco_atual.v, melhor_anterior)

----------------------------------------------------------------------------
(* find_cheapest_offer *)

\* An offer's price field: "ok" with a numeric total, the key 'price' absent,
\* the key 'total' absent, price null, total null, or a non-numeric total.
OfferTotals == {250, 300}
Offer(price, total, stops) == [price |-> price, total |-> total, stops |-> stops]
MalformedKinds == {"absent price", "absent total", "null price", "null total", "text"}
Offers ==
    {Offer("ok", v, 0) : v \in OfferTotals} \cup {Offer(k, 0, 0) : k \in MalformedKinds}
NoOffer == Offer("none", 0, 0)

SeqsUpTo(S, n) == UNION {[1..k -> S] : k \in 0..n}
Payload(kind, data, dictionaries) ==
    [kind |-> kind, data |-> data, dictionaries |-> dictionaries]
Payloads ==
    {Payload("none", <<>>, "absent"), Payload("no data", <<>>, "absent")}
    \cup {Payload("json", d, x) : d \in SeqsUpTo(Offers, MaxOffers),
                                  x \in {"absent", "carriers"}}

\* float(x.get("price", {}).get("total", float("inf"))): a missing key gives
\* inf; a null price has no .get and a null or non-numeric total has no float.
KeyRaises(x) == x.price \in {"null price", "null total", "text"}
KeyInf(x) == x.price \in {"absent price", "absent total"}
KeyLE(x, y) == KeyInf(y) \/ (~KeyInf(x) /\ x.total <= y.total)
KeyLT(x, y) == ~KeyLE(y, x)

\* min(data, key=...): the first element no later element is smaller than.
MinIndex(data) ==
    CHOOSE i \in 1..Len(data) :
        /\ \A j \in 1..Len(data) : KeyLE(data[i], data[j])
        /\ \A j \in 1..(i - 1) : KeyLT(data[i], data[j])

\* A Python tuple of values.
PyTuple(items) == [t |-> "tuple", v |-> items]

\* find_cheapest_offer returns the pair (cheapest, dictionaries): the element
\* of the list as it is, or (None, None).
find_cheapest_offer(payload) ==
    IF payload.kind # "json" \/ payload.data = <<>>
    THEN PyTuple(<<NoOffer, "none">>)
    ELSE IF \E i \in 1..Len(payload.data) : KeyRaises(payload.data[i])
    THEN PyTuple(<<NoOffer, "none">>)
    ELSE PyTuple(<<payload.data[MinIndex(payload.data)],
                   IF payload.dictionaries = "absent" THEN "empty" ELSE "carriers">>)

----------------------------------------------------------------------------
(* Config and the files of the run *)

SAMPLE_DEPARTURES == 2
CALENDAR_SWEEP_DAYS == 1
SCORE_ALERT_MIN == 20
SCORE_SWEEP_MIN == 10
COOLDOWN_HOURS == 12
tries == 3
DAYS_AHEAD_FROM == 10
DAYS_AHEAD_TO == 90

\* The values DESTINOS takes here: capitals of brazil_capitals_iata().
Capitals == {"GIG", "SDU"}
OneDestino == <<"GIG">>
TwoDestinos == <<"GIG", "SDU">>
Destinos == {DESTINOS[i] : i \in 1..Len(DESTINOS)}

\* gerar_datas: every departure is today + min(max(DAYS_AHEAD_FROM, base),
\* DAYS_AHEAD_TO) for a base drawn from prefer; the bases modelled.
prefer == {21, 28}

_d_days(dep, collected_utc) == Max(0, dep - collected_utc)

_bucket_ddays(dd) ==
    IF dd <= 6 THEN "0-6"
    ELSE IF dd <= 13 THEN "7-13"
    ELSE IF dd <= 20 THEN "14-20"
    ELSE IF dd <= 27 THEN "21-27"
    ELSE IF dd <= 34 THEN "28-34"
    ELSE IF dd <= 49 THEN "35-49"
    ELSE IF dd <= 69 THEN "50-69"
    ELSE "70-90"

\* The day range a bucket label names, "lo-hi".
BucketRange(label) ==
    CASE label = "0-6" -> [lo |-> 0, hi |-> 6]
      [] label = "7-13" -> [lo |-> 7, hi |-> 13]
      [] label = "14-20" -> [lo |-> 14, hi |-> 20]
      [] label = "21-27" -> [lo |-> 21, hi |-> 27]
      [] label = "28-34" -> [lo |-> 28, hi |-> 34]
      [] label = "35-49" -> [lo |-> 35, hi |-> 49]
      [] label = "50-69" -> [lo |-> 50, hi |-> 69]
      [] label = "70-90" -> [lo |-> 70, hi |-> 90]

\* date.weekday() of a day counted from 1970-01-01, a Thursday (3).
weekday(day) == (day + 3) % 7

\* baselines.json as a function from "origem-destino-dow-bucket" keys (here
\* the triple) to the stored p25: absent, null (None) or a number.
BaselineKey(destino, dow, bucket) == <<destino, dow, bucket>>
NoBaselines == [k \in {} |-> None]
Buckets == {"0-6", "7-13", "14-20", "21-27", "28-34", "35-49", "50-69", "70-90"}
SomeBaselines ==
    [k \in {BaselineKey(d, w, b) : d \in Capitals, w \in 0..6, b \in {"21-27", "28-34"}}
        |-> IF k[3] = "21-27" THEN Num(1800) ELSE None]

\* A row of history.csv as build_baselines reads it: destination, departure
\* day, collection day (ts_utc) and price_total.
Obs(dest, dep, ts, price) == [destino |-> dest, dep |-> dep, ts |-> ts, price |-> price]

\* sorted(vals), by insertion.
RECURSIVE Insert(_, _)
Insert(x, sorted) ==
    IF sorted = <<>> THEN <<x>>
    ELSE IF x <= Head(sorted) THEN <<x>> \o sorted
    ELSE <<Head(sorted)>> \o Insert(x, Tail(sorted))
RECURSIVE Sorted(_)
Sorted(vals) == IF vals = <<>> THEN <<>> ELSE Insert(Head(vals), Sorted(Tail(vals)))

mut_pct_unsorted(vals, q) ==
    IF vals = <<>> THEN None
    ELSE Num(vals[1 + Max(0, Min(Len(vals) - 1, (q * (Len(vals) - 1)) \div 100))])

\* pct(vals, q), q in hundredths: the element of sorted(vals) at index
\* max(0, min(len - 1, int(q * (len - 1)))).
pct(vals, q) ==
    IF vals = <<>> THEN None
    ELSE Num(Sorted(vals)[1 + Max(0, Min(Len(vals) - 1, (q * (Len(vals) - 1)) \div 100))])

\* A departure_date or ts_utc that strptime / fromisoformat refuses.
BadDate == -1

mut_ValidRow_keeps_any_number(row) ==
    row.dep # BadDate /\ row.ts # BadDate /\ row.price.t = "num"

\* build_baselines.py has its own _d_days and _bucket.
build_d_days(dep, collected) == Max(0, dep - collected)
_bucket(dd) ==
    IF dd <= 6 THEN "0-6"
    ELSE IF dd <= 13 THEN "7-13"
    ELSE IF dd <= 20 THEN "14-20"
    ELSE IF dd <= 27 THEN "21-27"
    ELSE IF dd <= 34 THEN "28-34"
    ELSE IF dd <= 49 THEN "35-49"
    ELSE IF dd <= 69 THEN "50-69"
    ELSE "70-90"

\* A row build_baselines keeps: its dates parse and float(price_total) is
\* finite and positive; any exception of the row's try block skips it.
ValidRow(row) ==
    row.dep # BadDate /\ row.ts # BadDate /\ row.price.t = "num" /\ row.price.v > 0
mut_KeyOf_collection_weekday(row) ==
    BaselineKey(row.destino, weekday(row.ts), _bucket(build_d_days(row.dep, row.ts)))

\* key = f"{origem}-{destino}-{dow}-{b}" of the row.
KeyOf(row) ==
    BaselineKey(row.destino, weekday(row.dep), _bucket(build_d_days(row.dep, row.ts)))

\* buckets[key]: the prices of the key's rows, in the order of the file.
RECURSIVE GroupVals(_, _, _)
GroupVals(log, key, i) ==
    IF i > Len(log) THEN <<>>
    ELSE (IF ValidRow(log[i]) /\ KeyOf(log[i]) = key THEN <<log[i].price.v>> ELSE <<>>)
         \o GroupVals(log, key, i + 1)

\* main of build_baselines.py: every row of the file goes to its key; a key
\* with fewer than 3 prices gets only p50.
build_baselines(log) ==
    [key \in {KeyOf(log[i]) : i \in {j \in 1..Len(log) : ValidRow(log[j])}} |->
        LET vals == GroupVals(log, key, 1)
        IN  IF Len(vals) < 3
            THEN [p10 |-> None, p25 |-> None, p50 |-> pct(vals, 50)]
            ELSE [p10 |-> pct(vals, 10), p25 |-> pct(vals, 25), p50 |-> pct(vals, 50)]]

\* key = f"{origem}-{destino}-{dow}-{bucket}" of lookup_baseline_p25.
LookupKey(destino, dep, collected) ==
    BaselineKey(destino, weekday(dep), _bucket_ddays(_d_days(dep, collected)))

lookup_baseline_p25(bl, destino, dep, collected) ==
    IF DOMAIN bl = {} THEN None
    ELSE LET key == LookupKey(destino, dep, collected)
         IN  IF key \in DOMAIN bl /\ bl[key].t = "num" THEN bl[key] ELSE None

\* baselines.json as load_baselines reads what build_baselines wrote: the
\* p25 of every key.
load_baselines(built) == [key \in DOMAIN built |-> built[key].p25]

deal_score(price, baseline_p25, stops) ==
    IF baseline_p25.t # "num" \/ baseline_p25.v <= 0 THEN 0
    ELSE Max(0, Min(100,
             RoundHalfEven(100 * (baseline_p25.v - price)
                               - 10 * Max(0, stops) * baseline_p25.v,
                           baseline_p25.v)))

----------------------------------------------------------------------------
(* HTTP: the vendor's answers and the retry loop *)

\* What one requests.request call does: returns a response with a status or
\* raises a requests.RequestException.
Answer(exc, status) == [exc |-> exc, status |-> status]
Answers == {Answer(FALSE, st) : st \in {200, 401, 429, 503}} \cup {Answer(TRUE, 0)}
AnswerSeqs == [1..tries -> Answers]
Retryable(st) == st \in {429, 500, 502, 503, 504}

\* The answers of the calls studied on their own: every retryable status.
AllAnswers ==
    Answers \cup {Answer(FALSE, st) : st \in {404, 500, 502, 504}}
AllAnswerSeqs == [1..tries -> AllAnswers]

\* delay = 2.0, then time.sleep(delay); delay *= 2 after each failed attempt.
RECURSIVE Delays(_, _)
Delays(n, delay) == IF n = 0 THEN <<>> ELSE <<delay>> \o Delays(n - 1, 2 * delay)

\* The attempt (1..tries) whose response _request_with_retry returns, or 0.
ReturningAttempt(answers) ==
    IF \E i \in 1..tries : ~answers[i].exc /\ ~Retryable(answers[i].status)
    THEN CHOOSE i \in 1..tries :
            /\ ~answers[i].exc /\ ~Retryable(answers[i].status)
            /\ \A j \in 1..(i - 1) : answers[j].exc \/ Retryable(answers[j].status)
    ELSE 0

\* _request_with_retry: the response returned, or the exception raised once
\* the loop is over: last_exc when some attempt raised, else RuntimeError.
mut_request_with_retry_returns_last(answers) ==
    LET i == ReturningAttempt(answers)
    IN  IF i # 0
        THEN [t |-> "response", status |-> answers[i].status, requests |-> i,
              slept |-> Delays(i - 1, 2), via |-> "requests.request"]
        ELSE IF \E j \in 1..tries : answers[j].exc
        THEN [t |-> "RequestException", status |-> 0, requests |-> tries,
              slept |-> Delays(tries, 2), via |-> "requests.request"]
        ELSE [t |-> "response", status |-> answers[tries].status, requests |-> tries,
              slept |-> Delays(tries, 2), via |-> "requests.request"]

_request_with_retry(answers) ==
    LET i == ReturningAttempt(answers)
    IN  IF i # 0
        THEN [t |-> "response", status |-> answers[i].status, requests |-> i,
              slept |-> Delays(i - 1, 2), via |-> "requests.request"]
        ELSE IF \E j \in 1..tries : answers[j].exc
        THEN [t |-> "RequestException", status |-> 0, requests |-> tries,
              slept |-> Delays(tries, 2), via |-> "requests.request"]
        ELSE [t |-> "RuntimeError", status |-> 0, requests |-> tries,
              slept |-> Delays(tries, 2), via |-> "requests.request"]

\* buscar_passagens: the JSON body of a 200 response; None for another status
\* and for a RequestException; any other exception goes up to the caller.
buscar_passagens(answers, body) ==
    LET r == _request_with_retry(answers)
        nothing == Payload("none", <<>>, "absent")
    IN  IF r.t = "RuntimeError"
        THEN [t |-> "RuntimeError", payload |-> nothing, method |-> "GET", via |-> r.via]
        ELSE IF r.t = "response" /\ r.status = 200
        THEN [t |-> "payload", payload |-> body, method |-> "GET", via |-> r.via]
        ELSE [t |-> "none", payload |-> nothing, method |-> "GET", via |-> r.via]

\* get_token: sys.exit(1) without credentials; else one requests.post, whose
\* RequestException (raise_for_status included) is logged and raised again;
\* else the access_token field of the response.
get_token(creds, answer) ==
    IF ~creds
    THEN [t |-> "SystemExit", field |-> "", method |-> "", via |-> ""]
    ELSE IF answer.exc \/ answer.status >= 400
    THEN [t |-> "RequestException", field |-> "", method |-> "POST",
          via |-> "requests.post"]
    ELSE [t |-> "token", field |-> "access_token", method |-> "POST",
          via |-> "requests.post"]

\* The workflow monitor's AmadeusAPI.search_roundtrip_get, with a token at
\* hand.  The offers of a 200 response as it simplifies them: price_total is
\* 0.0 for an offer without a parsable price.
Enhanced(body) ==
    [i \in 1..Len(body.data) |->
        [price_total |-> IF body.data[i].price = "ok" THEN body.data[i].total ELSE 0,
         stopovers |-> body.data[i].stops]]

\* Cache._api_cache for the key of the call: no item, or an item and its value.
NoItem == [item |-> FALSE, value |-> <<>>]
Item(value) == [item |-> TRUE, value |-> value]

\* for attempt in range(3): the GETs sent and whether one was parsed.  A 429
\* sleeps and goes on; a RequestException (raise_for_status included) returns
\* [] at the last attempt and goes on before it.
GET_ATTEMPTS == 3
RECURSIVE SearchLoop(_, _)
SearchLoop(answers, attempt) ==
    IF attempt >= GET_ATTEMPTS THEN [parsed |-> FALSE, gets |-> GET_ATTEMPTS]
    ELSE LET a == answers[attempt + 1]
         IN  IF ~a.exc /\ a.status = 429 THEN SearchLoop(answers, attempt + 1)
             ELSE IF a.exc \/ a.status >= 400
             THEN IF attempt = GET_ATTEMPTS - 1
                  THEN [parsed |-> FALSE, gets |-> GET_ATTEMPTS]
                  ELSE SearchLoop(answers, attempt + 1)
             ELSE [parsed |-> TRUE, gets |-> attempt + 1]

mut_search_roundtrip_get_caches_failure(cache, answers, body) ==
    IF cache.item
    THEN [t |-> "list", value |-> cache.value, gets |-> 0, cache |-> cache,
          from_cache |-> TRUE]
    ELSE LET l == SearchLoop(answers, 0)
             value == IF l.parsed THEN Enhanced(body) ELSE <<>>
         IN  [t |-> "list", value |-> value, gets |-> l.gets,
              cache |-> Item(value), from_cache |-> FALSE]

\* A cached value is returned as it is; else the loop runs, and a parsed
\* response is simplified, stored with Cache.set and returned.
search_roundtrip_get(cache, answers, body) ==
    IF cache.item
    THEN [t |-> "list", value |-> cache.value, gets |-> 0, cache |-> cache,
          from_cache |-> TRUE]
    ELSE LET l == SearchLoop(answers, 0)
         IN  IF l.parsed
             THEN [t |-> "list", value |-> Enhanced(body), gets |-> l.gets,
                   cache |-> Item(Enhanced(body)), from_cache |-> FALSE]
             ELSE [t |-> "list", value |-> <<>>, gets |-> l.gets,
                   cache |-> cache, from_cache |-> FALSE]

----------------------------------------------------------------------------
(* Telegram and the cooldown file *)

mut_enviar_telegram_raises(configured, answer) ==
    IF ~configured
    THEN [requests |-> 0, result |-> "unconfigured", raises |-> FALSE]
    ELSE IF answer.exc \/ answer.status >= 400
    THEN [requests |-> 1, result |-> "failed", raises |-> TRUE]
    ELSE [requests |-> 1, result |-> "ok", raises |-> FALSE]

\* enviar_telegram: nothing without TOKEN/CHAT_ID; else one requests.post, whose
\* RequestException (raise_for_status included) is logged and swallowed.
enviar_telegram(configured, answer) ==
    IF ~configured
    THEN [requests |-> 0, result |-> "unconfigured", raises |-> FALSE]
    ELSE IF answer.exc \/ answer.status >= 400
    THEN [requests |-> 1, result |-> "failed", raises |-> FALSE]
    ELSE [requests |-> 1, result |-> "ok", raises |-> FALSE]

\* A last_alerts.json entry: the hour written and the suffix of the text.
NoTs == [h |-> 0, suffix |-> "absent"]
\* datetime.utcnow().isoformat() + "Z"
IsoZ(h) == [h |-> h, suffix |-> "Z"]
\* datetime.fromisoformat(ts.replace("Z", "+00:00")): an offset makes it aware.
fromisoformat(ts) == [h |-> ts.h, aware |-> ts.suffix = "Z"]
\* datetime.utcnow() is naive.
utcnow == [h |-> now, aware |-> FALSE]
\* a - b on datetimes: TypeError between a naive and an aware one.
DatetimeSub(a, b) ==
    IF a.aware # b.aware THEN [t |-> "TypeError", v |-> 0]
    ELSE [t |-> "timedelta", v |-> a.h - b.h]

\* _cooldown_ok: True when there is no entry, and True on any exception.
_cooldown_ok(destino) ==
    IF last_alerts[destino] = NoTs THEN TRUE
    ELSE LET d == DatetimeSub(utcnow, fromisoformat(last_alerts[destino]))
         IN  IF d.t = "TypeError" THEN TRUE ELSE d.v >= COOLDOWN_HOURS

\* _mark_alert: the file with the route's entry set to now.
_mark_alert(destino) == [last_alerts EXCEPT ![destino] = IsoZ(now)]

----------------------------------------------------------------------------
(* The run: main and process_destino *)

\* Offers of the run's payloads: price field, total and stops (segments - 1).
RunOffers ==
    {Offer("ok", 1000, 0), Offer("ok", 1500, 0), Offer("ok", 2000, 0),
     Offer("absent price", 0, 0), Offer("text", 0, 0)}
RunPayloads ==
    {Payload("json", <<>>, "absent")}
    \cup {Payload("json", <<o>>, "absent") : o \in RunOffers}

_stops(offer) == Max(0, offer.stops)

\* Every result buscar_passagens can give: all answers to the tries attempts,
\* with every body a 200 response may carry.
SearchResults == {buscar_passagens(a, body) : a \in AnswerSeqs, body \in RunPayloads}

\* The sweep's k-th neighbour: dd = 1..D, side -1 then +1.
SweepOffset(k) == IF k % 2 = 1 THEN -((k + 1) \div 2) ELSE k \div 2

\* _try_sweep_dates over the results bs of its 2 * D searches: the exception
\* of the first search that raises, else the (offer, date) pairs of the
\* searches that gave a payload with a cheapest offer, in order.
RECURSIVE SweepResults(_, _, _)
SweepResults(base_date, bs, k) ==
    IF k > Len(bs) THEN <<>>
    ELSE LET ch == find_cheapest_offer(bs[k].payload).v[1]
         IN  (IF bs[k].t = "payload" /\ ch # NoOffer
              THEN <<[offer |-> ch, dep |-> base_date + SweepOffset(k)]>>
              ELSE <<>>) \o SweepResults(base_date, bs, k + 1)

\* The searches the sweep makes: all of them, or up to the one that raises.
Searched(bs) ==
    IF \E k \in 1..Len(bs) : bs[k].t = "RuntimeError"
    THEN CHOOSE k \in 1..Len(bs) :
            /\ bs[k].t = "RuntimeError"
            /\ \A j \in 1..(k - 1) : bs[j].t # "RuntimeError"
    ELSE Len(bs)

_try_sweep_dates(base_date, bs) ==
    LET queried == [k \in 1..Searched(bs) |-> base_date + SweepOffset(k)]
    IN  IF \E k \in 1..Len(bs) : bs[k].t = "RuntimeError"
        THEN [t |-> "RuntimeError", results |-> <<>>, queried |-> queried]
        ELSE [t |-> "results", results |-> SweepResults(base_date, bs, 1),
              queried |-> queried]

\* What the sweep can give, as offsets from the base date.
SweepOutcomes ==
    {_try_sweep_dates(0, bs) : bs \in [1..(2 * CALENDAR_SWEEP_DAYS) -> SearchResults]}

\* What a pass of the loop did about the notification: the outcome, the
\* requests sent to Telegram, the route, the hour, and the hour of the message
\* Telegram accepted for the same route in the pass just before (-1: none).
TelegramIdle ==
    [result |-> "idle", requests |-> 0, destino |-> "", ts |-> 0, prev |-> -1]

today == now \div 24
destino == DESTINOS[dest_i]

\* The local variables of one pass of process_destino's loop: the price of
\* the date's cheapest offer and its score (price0, score0), what deve_alertar
\* was given and returned, the neighbour dates searched and the prices found
\* there, then price, dep_real, p25 and score as they stand after the sweep.
Body(price, dep, melhor_anterior, r, p25, score) ==
    [price0 |-> price, score0 |-> score, melhor_anterior |-> melhor_anterior,
     alert |-> r.alert, motivo |-> r.motivo, swept |-> FALSE, queried |-> <<>>,
     found |-> <<>>, price |-> price, base |-> dep, dep |-> dep, p25 |-> p25,
     score |-> score]
NoBody == Body(0, 0, None, [alert |-> FALSE, motivo |-> Motivo("", 0)], None, 0)
\* How the pass ended (skipped, raised or recorded) and its notified flag.
Locals(how, c, notified) == [t |-> how, c |-> c, notified |-> notified]
NoLocals == Locals("none", NoBody, FALSE)

RECURSIVE mut_SweepFold_takes_last(_, _, _)
mut_SweepFold_takes_last(c, results, i) ==
    IF i > Len(results) THEN [t |-> "ok", c |-> c]
    ELSE IF results[i].offer.price # "ok" THEN [t |-> "KeyError", c |-> c]
    ELSE LET dep == c.base + results[i].dep
             p25 == lookup_baseline_p25(baselines, destino, dep, today)
         IN  mut_SweepFold_takes_last(
                [c EXCEPT !.price = results[i].offer.total,
                          !.dep = dep,
                          !.p25 = p25,
                          !.score = deal_score(results[i].offer.total, p25,
                                               _stops(results[i].offer))],
                results, i + 1)

\* The loop of process_destino over the sweep's results: a cheaper neighbour
\* replaces price, date, p25 and score; alert and motivo stay as they were.
RECURSIVE SweepFold(_, _, _)
SweepFold(c, results, i) ==
    IF i > Len(results) THEN [t |-> "ok", c |-> c]
    ELSE IF results[i].offer.price # "ok" THEN [t |-> "KeyError", c |-> c]
    ELSE IF results[i].offer.total < c.price
    THEN LET dep == c.base + results[i].dep
             p25 == lookup_baseline_p25(baselines, destino, dep, today)
         IN  SweepFold([c EXCEPT !.price = results[i].offer.total,
                                 !.dep = dep,
                                 !.p25 = p25,
                                 !.score = deal_score(results[i].offer.total, p25,
                                                      _stops(results[i].offer))],
                       results, i + 1)
    ELSE SweepFold(c, results, i + 1)

mut_LessThanBest_always(price, best) == TRUE

\* price < melhor_anterior, melhor_anterior being inf or a number.
LessThanBest(price, best) == best.t = "inf" \/ price < best.v

\* The end of one pass of process_destino's loop, and of main's loop.
Advance ==
    IF date_j < SAMPLE_DEPARTURES
    THEN pc' = "loop" /\ date_j' = date_j + 1 /\ dest_i' = dest_i
    ELSE IF dest_i < Len(DESTINOS)
    THEN pc' = "loop" /\ date_j' = 1 /\ dest_i' = dest_i + 1
    ELSE pc' = "done" /\ date_j' = date_j /\ dest_i' = dest_i

\* An exception nothing catches: the run ends with a traceback.
Crash(why) ==
    /\ pc' = "crashed"
    /\ crash' = why
    /\ UNCHANGED <<dest_i, date_j>>

\* main up to its loop: get_token (sys.exit(1) without credentials, one POST
\* whose failure is logged and raised again), load_baselines, melhores = {}.
GetToken ==
    /\ pc = "start"
    /\ UNCHANGED <<runs, now, telegram, last_alerts, history, locals,
                   cfgVars, envVars, fnVars, callVars>>
    /\ IF ~credentials
       THEN /\ pc' = "exit"
            /\ UNCHANGED <<crash, dest_i, date_j, melhores, http_used>>
       ELSE \E answer \in Answers :
            /\ http_used' = TRUE
            /\ melhores' = [d \in Destinos |-> Inf]
            /\ IF get_token(credentials, answer).t # "token"
               THEN Crash("token")
               ELSE /\ pc' = "loop"
                    /\ dest_i' = 1
                    /\ date_j' = 1
                    /\ crash' = "none"

\* One row of history.csv (the columns the run computes from the offer).
Row(c, notified) ==
    [destino |-> destino, price_total |-> c.price,
     notified |-> notified,
     reason |-> IF notified THEN c.motivo ELSE Motivo("sem alerta", 0),
     score |-> c.score]

mut_append_history_row_rewrites(rows, row) == <<row>>

\* append_history_row: the file is opened in mode "a" and one row is written.
append_history_row(rows, row) == Append(rows, row)

\* The end of the loop body: the notification under cooldown, the history
\* row, the route's best price.
NotifyAndRecord(c) ==
    \E e \in {enviar_telegram(telegram_configured, a) : a \in Answers} :
      LET trigger == \/ c.alert
                     \/ c.score >= SCORE_ALERT_MIN
                     \/ (c.p25.t = "num" /\ c.p25.v # 0 /\ c.price <= c.p25.v)
          send == trigger /\ _cooldown_ok(destino)
          prev == IF telegram.destino = destino /\ telegram.result = "ok"
                  THEN telegram.ts ELSE -1
      IN  /\ telegram' =
               IF send
               THEN [result |-> e.result, requests |-> e.requests,
                     destino |-> destino, ts |-> now, prev |-> prev]
               ELSE [result |-> IF trigger THEN "cooldown" ELSE "none",
                     requests |-> 0, destino |-> destino, ts |-> now,
                     prev |-> -1]
          /\ IF send /\ e.raises
             THEN /\ Crash("RequestException")
                  /\ locals' = Locals("raised", c, FALSE)
                  /\ UNCHANGED <<last_alerts, history, melhores>>
             ELSE /\ last_alerts' = IF send THEN _mark_alert(destino) ELSE last_alerts
                  /\ locals' = Locals("recorded", c, send)
                  /\ history' = append_history_row(history, Row(c, send))
                  /\ melhores' = IF LessThanBest(c.price, melhores[destino])
                                 THEN [melhores EXCEPT ![destino] = Num(c.price)]
                                 ELSE melhores
                  /\ Advance
                  /\ crash' = crash

\* The loop body left without a row: a skipped date, or an exception.
Skip ==
    /\ Advance
    /\ telegram' = TelegramIdle
    /\ locals' = Locals("skipped", NoBody, FALSE)
    /\ UNCHANGED <<crash, last_alerts, history, melhores>>

Abort(why, c) ==
    /\ Crash(why)
    /\ telegram' = TelegramIdle
    /\ locals' = Locals("raised", c, FALSE)
    /\ UNCHANGED <<last_alerts, history, melhores>>

\* One pass of process_destino's loop for the date at hand: the search, the
\* selection, the price, deve_alertar against the route's best so far,
\* baseline and score, the sweep of the neighbour dates of a promising offer,
\* then the notification and the history row.
ProcessDate ==
    /\ pc = "loop"
    /\ UNCHANGED <<runs, now, http_used, cfgVars, envVars, fnVars, callVars>>
    /\ \E b \in SearchResults, base \in prefer :
         LET dep == today + Min(Max(DAYS_AHEAD_FROM, base), DAYS_AHEAD_TO)
             ch == find_cheapest_offer(b.payload).v[1]
             r == deve_alertar(Num(ch.total), melhores[destino])
             p25 == lookup_baseline_p25(baselines, destino, dep, today)
             score == deal_score(ch.total, p25, _stops(ch))
             c == Body(ch.total, dep, melhores[destino], r, p25, score)
         IN  IF b.t = "RuntimeError" THEN Abort("RuntimeError", NoBody)
             ELSE IF b.t = "none" \/ ch = NoOffer THEN Skip
             ELSE IF ch.price # "ok" THEN Abort("KeyError", NoBody)
             ELSE IF score >= SCORE_SWEEP_MIN /\ CALENDAR_SWEEP_DAYS > 0
             THEN \E sw \in SweepOutcomes :
                    LET cs == [c EXCEPT
                                 !.swept = TRUE,
                                 !.queried = [k \in 1..Len(sw.queried) |->
                                                 dep + sw.queried[k]],
                                 !.found = [k \in 1..Len(sw.results) |->
                                               sw.results[k].offer]]
                        f == SweepFold(cs, sw.results, 1)
                    IN  IF sw.t = "RuntimeError" THEN Abort("RuntimeError", cs)
                        ELSE IF f.t = "KeyError" THEN Abort("KeyError", f.c)
                        ELSE NotifyAndRecord(f.c)
             ELSE NotifyAndRecord(c)

\* The next scheduled run of the script, some hours later: a new process, so
\* only the files are left of the run before.
StartRun ==
    /\ pc \in {"done", "exit", "crashed"}
    /\ runs < MaxRuns
    /\ \E gap \in {1, COOLDOWN_HOURS} : now' = now + gap
    /\ runs' = runs + 1
    /\ pc' = "start"
    /\ crash' = "none"
    /\ dest_i' = 1
    /\ date_j' = 1
    /\ melhores' = [d \in Destinos |-> Inf]
    /\ http_used' = FALSE
    /\ locals' = NoLocals
    /\ UNCHANGED <<telegram, last_alerts, history, cfgVars, envVars, fnVars, callVars>>

RunIdle ==
    /\ pc = "start"
    /\ crash = "none"
    /\ runs = 1
    /\ now = 0
    /\ dest_i = 1
    /\ date_j = 1
    /\ melhores = [d \in Destinos |-> Inf]
    /\ http_used = FALSE
    /\ telegram = TelegramIdle
    /\ last_alerts = [d \in Destinos |-> NoTs]
    /\ history = <<>>
    /\ locals = NoLocals

----------------------------------------------------------------------------
(* Calls of the two pure functions on every input of the bounded sets *)

BucketIdle ==
    /\ arg_dep = 0
    /\ arg_collected = 0
    /\ ret_bucket = NotCalled
    /\ ret_keys = NotCalled

HttpIdle ==
    /\ arg_answers = <<>>
    /\ arg_body = Payload("none", <<>>, "absent")
    /\ ret_request = NotCalled
    /\ ret_buscar = NotCalled
    /\ ret_token = NotCalled
    /\ ret_search = NotCalled

BuildIdle ==
    /\ arg_log = <<>>
    /\ arg_log2 = <<>>
    /\ arg_days = <<0, 0>>
    /\ ret_baselines = NotCalled

WfIdle ==
    /\ wf_pc = <<>>
    /\ wf_res = <<>>
    /\ wf_token = FALSE
    /\ wf_posts = 0
    /\ wf_cache = {}
    /\ wf_obs = <<>>
    /\ wf_main = "idle"

OppIdle ==
    /\ arg_obs = <<>>
    /\ arg_hist = <<>>
    /\ arg_limits = [max_per_dest |-> 0, max_stopovers |-> 0]
    /\ ret_opps = NotCalled

CallIdle ==
    /\ BucketIdle
    /\ HttpIdle
    /\ BuildIdle
    /\ WfIdle
    /\ OppIdle

FnIdle ==
    /\ arg_preco_atual = None
    /\ arg_melhor_anterior = None
    /\ ret_deve_alertar = NotCalled
    /\ arg_payload = Payload("none", <<>>, "absent")
    /\ ret_find_cheapest = NotCalled

EnvIdle ==
    /\ credentials = TRUE
    /\ telegram_configured = TRUE
    /\ baselines = NoBaselines
    /\ DESTINOS = OneDestino

InitAlertar ==
    /\ MAX_PRECO_PP \in CapValues
    /\ MIN_DISCOUNT_PCT \in DiscountValues
    /\ arg_preco_atual \in PriceInputs
    /\ arg_melhor_anterior \in BestInputs
    /\ ret_deve_alertar = NotCalled
    /\ arg_payload = Payload("none", <<>>, "absent")
    /\ ret_find_cheapest = NotCalled
    /\ EnvIdle
    /\ RunIdle
    /\ CallIdle

CallDeveAlertar ==
    /\ ret_deve_alertar = NotCalled
    /\ ret_deve_alertar' = deve_alertar(arg_preco_atual, arg_melhor_anterior)
    /\ UNCHANGED <<arg_preco_atual, arg_melhor_anterior, arg_payload,
                   ret_find_cheapest, cfgVars, envVars, runVars, callVars>>

InitCheapest ==
    /\ MAX_PRECO_PP = DEFAULT_MAX_PRECO_PP
    /\ MIN_DISCOUNT_PCT = DEFAULT_MIN_DISCOUNT_PCT
    /\ arg_preco_atual = None
    /\ arg_melhor_anterior = None
    /\ ret_deve_alertar = NotCalled
    /\ arg_payload \in Payloads
    /\ ret_find_cheapest = NotCalled
    /\ EnvIdle
    /\ RunIdle
    /\ CallIdle

CallFindCheapest ==
    /\ ret_find_cheapest = NotCalled
    /\ ret_find_cheapest' = find_cheapest_offer(arg_payload)
    /\ UNCHANGED <<arg_preco_atual, arg_melhor_anterior, arg_payload,
                   ret_deve_alertar, cfgVars, envVars, runVars, callVars>>

\* _bucket_ddays(_d_days(dep, collected)) for every pair of days.
CollectedDays == {0, 5, 30}
InitBuckets ==
    /\ MAX_PRECO_PP = DEFAULT_MAX_PRECO_PP
    /\ MIN_DISCOUNT_PCT = DEFAULT_MIN_DISCOUNT_PCT
    /\ arg_dep \in 0..MaxDay
    /\ arg_collected \in CollectedDays
    /\ ret_bucket = NotCalled
    /\ ret_keys = NotCalled
    /\ HttpIdle
    /\ BuildIdle
    /\ WfIdle
    /\ OppIdle
    /\ FnIdle
    /\ EnvIdle
    /\ RunIdle

CallBucket ==
    /\ ret_bucket = NotCalled
    /\ ret_keys = NotCalled
    /\ ret_bucket' = [t |-> "returned",
                      dd |-> _d_days(arg_dep, arg_collected),
                      bucket |-> _bucket_ddays(_d_days(arg_dep, arg_collected))]
    /\ UNCHANGED <<arg_dep, arg_collected, ret_keys, httpVars, buildVars, wfVars,
                   oppVars, cfgVars, envVars, fnVars, runVars>>

\* Three rows of one route, departure and collection day go through
\* build_baselines, and the monitor looks the route up for the same days in
\* the file written.
CallKeys ==
    /\ ret_bucket = NotCalled
    /\ ret_keys = NotCalled
    /\ \E dest \in Capitals :
         LET log == [i \in 1..3 |-> Obs(dest, arg_dep, arg_collected, Num(1000 * i))]
         IN  ret_keys' = [t |-> "returned",
                          written |-> DOMAIN build_baselines(log),
                          looked_up |-> LookupKey(dest, arg_dep, arg_collected),
                          p25 |-> build_baselines(log)[KeyOf(log[1])].p25,
                          found |-> lookup_baseline_p25(
                                      load_baselines(build_baselines(log)),
                                      dest, arg_dep, arg_collected)]
    /\ UNCHANGED <<arg_dep, arg_collected, ret_bucket, httpVars, buildVars, wfVars,
                   oppVars, cfgVars, envVars, fnVars, runVars>>

NextBuckets ==
    \/ CallBucket
    \/ CallKeys

\* The three HTTP functions on every sequence of answers to the attempts; the
\* token request gets the first answer.
InitHttp ==
    /\ MAX_PRECO_PP = DEFAULT_MAX_PRECO_PP
    /\ MIN_DISCOUNT_PCT = DEFAULT_MIN_DISCOUNT_PCT
    /\ arg_answers \in AllAnswerSeqs
    /\ arg_body \in {Payload("json", <<>>, "absent"),
                     Payload("json", <<Offer("ok", 1000, 0)>>, "carriers")}
    /\ ret_request = NotCalled
    /\ ret_buscar = NotCalled
    /\ ret_token = NotCalled
    /\ ret_search = NotCalled
    /\ BucketIdle
    /\ BuildIdle
    /\ WfIdle
    /\ OppIdle
    /\ FnIdle
    /\ EnvIdle
    /\ RunIdle

HttpNotCalled ==
    /\ ret_request = NotCalled
    /\ ret_buscar = NotCalled
    /\ ret_token = NotCalled
    /\ ret_search = NotCalled

CallRequestWithRetry ==
    /\ HttpNotCalled
    /\ ret_request' = _request_with_retry(arg_answers)
    /\ UNCHANGED <<arg_answers, arg_body, ret_buscar, ret_token, ret_search, bucketVars,
                   buildVars, wfVars, oppVars, cfgVars, envVars, fnVars, runVars>>

CallBuscarPassagens ==
    /\ HttpNotCalled
    /\ ret_buscar' = buscar_passagens(arg_answers, arg_body)
    /\ UNCHANGED <<arg_answers, arg_body, ret_request, ret_token, ret_search, bucketVars,
                   buildVars, wfVars, oppVars, cfgVars, envVars, fnVars, runVars>>

CallGetToken ==
    /\ HttpNotCalled
    /\ ret_token' = get_token(credentials, arg_answers[1])
    /\ UNCHANGED <<arg_answers, arg_body, ret_request, ret_buscar, ret_search, bucketVars,
                   buildVars, wfVars, oppVars, cfgVars, envVars, fnVars, runVars>>

\* Two calls of search_roundtrip_get for one key, the cache empty before the
\* first; the second comes before or after the item's expiry and meets a
\* vendor that answers 200 or 429.
SecondAnswers == {[i \in 1..GET_ATTEMPTS |-> Answer(FALSE, st)] : st \in {200, 429}}
CallSearchRoundtrip ==
    /\ HttpNotCalled
    /\ \E expired \in BOOLEAN, answers2 \in SecondAnswers :
         LET first == search_roundtrip_get(NoItem, arg_answers, arg_body)
             left == IF expired THEN NoItem ELSE first.cache
         IN  ret_search' = [t |-> "returned", first |-> first, expired |-> expired,
                            second |-> search_roundtrip_get(left, answers2, arg_body)]
    /\ UNCHANGED <<arg_answers, arg_body, ret_request, ret_buscar, ret_token, bucketVars,
                   buildVars, wfVars, oppVars, cfgVars, envVars, fnVars, runVars>>

NextHttp ==
    \/ CallRequestWithRetry
    \/ CallBuscarPassagens
    \/ CallGetToken
    \/ CallSearchRoundtrip

\* Two builds of the baselines, on two days, over the same rows in two
\* orders.  The rows: collected on day 35, or one on day 0, for a departure
\* 21 days later (one key), with a price, a zero, a text or inf in
\* price_total, or with a departure_date that does not parse.
LogRows ==
    {Obs("GIG", 56, 35, Num(p)) : p \in {1000, 1500, 2000}}
    \cup {Obs("GIG", 21, 0, Num(1000)),
          Obs("GIG", 56, 35, Num(0)), Obs("GIG", 56, 35, Text), Obs("GIG", 56, 35, Inf),
          Obs("GIG", BadDate, 35, Num(1000))}
BuildDays == {<<35, 42>>, <<42, 42>>}
Injective(f) == \A i, j \in DOMAIN f : f[i] = f[j] => i = j
Reorderings(log) ==
    {[i \in 1..Len(log) |-> log[f[i]]] :
        f \in {g \in [1..Len(log) -> 1..Len(log)] : Injective(g)}}

InitBaselines ==
    /\ MAX_PRECO_PP = DEFAULT_MAX_PRECO_PP
    /\ MIN_DISCOUNT_PCT = DEFAULT_MIN_DISCOUNT_PCT
    /\ arg_log \in SeqsUpTo(LogRows, MaxLogRows)
    /\ arg_log2 \in Reorderings(arg_log)
    /\ arg_days \in BuildDays
    /\ ret_baselines = NotCalled
    /\ BucketIdle
    /\ HttpIdle
    /\ WfIdle
    /\ OppIdle
    /\ FnIdle
    /\ EnvIdle
    /\ RunIdle

BuildBaselines ==
    /\ ret_baselines = NotCalled
    /\ ret_baselines' = [t |-> "built",
                         first |-> build_baselines(arg_log),
                         second |-> build_baselines(arg_log2)]
    /\ UNCHANGED <<arg_log, arg_log2, arg_days, bucketVars, httpVars, wfVars,
                   oppVars, cfgVars, envVars, fnVars, runVars>>

\* The workflow monitor's scrape: one search per (destination, stay) for the
\* sampled departure, each submitted to a ThreadPoolExecutor whose workers
\* run search_roundtrip_get side by side; the main thread collects.
STAY_NIGHTS_MIN == 5
STAY_NIGHTS_MAX == 10
_sample_stays == {STAY_NIGHTS_MIN, STAY_NIGHTS_MAX}
ScrapeTasks == {<<d, n>> : d \in Destinos, n \in _sample_stays}
max_workers == Min(Max(2, Cardinality(ScrapeTasks)), 6)
Running(t) ==
    wf_pc[t] \in {"cache_get", "auth", "auth_post", "auth_store", "search", "cache_set"}

InitScrape ==
    /\ MAX_PRECO_PP = DEFAULT_MAX_PRECO_PP
    /\ MIN_DISCOUNT_PCT = DEFAULT_MIN_DISCOUNT_PCT
    /\ credentials \in BOOLEAN
    /\ telegram_configured = TRUE
    /\ baselines = NoBaselines
    /\ DESTINOS = TwoDestinos
    /\ wf_pc = [t \in ScrapeTasks |-> "queued"]
    /\ wf_res = [t \in ScrapeTasks |-> "none"]
    /\ wf_token = FALSE
    /\ wf_posts = 0
    /\ wf_cache = {}
    /\ wf_obs = <<>>
    /\ wf_main = "collecting"
    /\ BucketIdle
    /\ HttpIdle
    /\ BuildIdle
    /\ OppIdle
    /\ FnIdle
    /\ RunIdle

WfRest ==
    <<bucketVars, httpVars, buildVars, oppVars, cfgVars, envVars, fnVars, runVars>>

\* A free worker of the pool takes the search from the queue.
StartSearch(t) ==
    /\ wf_pc[t] = "queued"
    /\ wf_main = "collecting"
    /\ Cardinality({u \in ScrapeTasks : Running(u)}) < max_workers
    /\ wf_pc' = [wf_pc EXCEPT ![t] = "cache_get"]
    /\ UNCHANGED <<wf_res, wf_token, wf_posts, wf_cache, wf_obs, wf_main, WfRest>>

\* Cache.get under the lock: a hit is returned, a miss goes on to _auth.
CacheGet(t) ==
    /\ wf_pc[t] = "cache_get"
    /\ IF t \in wf_cache
       THEN /\ wf_pc' = [wf_pc EXCEPT ![t] = "finished"]
            /\ wf_res' = [wf_res EXCEPT ![t] = "offers"]
       ELSE /\ wf_pc' = [wf_pc EXCEPT ![t] = "auth"]
            /\ wf_res' = wf_res
    /\ UNCHANGED <<wf_token, wf_posts, wf_cache, wf_obs, wf_main, WfRest>>

\* _auth up to its request: the token at hand is returned, SystemExit is
\* raised without credentials, else the thread goes to request a token.
AuthCheck(t) ==
    /\ wf_pc[t] = "auth"
    /\ IF wf_token
       THEN wf_pc' = [wf_pc EXCEPT ![t] = "search"] /\ wf_res' = wf_res
       ELSE IF ~credentials
       THEN /\ wf_pc' = [wf_pc EXCEPT ![t] = "finished"]
            /\ wf_res' = [wf_res EXCEPT ![t] = "SystemExit"]
       ELSE wf_pc' = [wf_pc EXCEPT ![t] = "auth_post"] /\ wf_res' = wf_res
    /\ UNCHANGED <<wf_token, wf_posts, wf_cache, wf_obs, wf_main, WfRest>>

\* requests.post and raise_for_status of _auth, outside any try.
AuthPost(t) ==
    /\ wf_pc[t] = "auth_post"
    /\ wf_posts' = wf_posts + 1
    /\ \E answer \in Answers :
         IF answer.exc \/ answer.status >= 400
         THEN /\ wf_pc' = [wf_pc EXCEPT ![t] = "finished"]
              /\ wf_res' = [wf_res EXCEPT ![t] = "Exception"]
         ELSE /\ wf_pc' = [wf_pc EXCEPT ![t] = "auth_store"]
              /\ wf_res' = wf_res
    /\ UNCHANGED <<wf_token, wf_cache, wf_obs, wf_main, WfRest>>

\* cls._token and cls._token_exp are written, with no lock.
AuthStore(t) ==
    /\ wf_pc[t] = "auth_store"
    /\ wf_token' = TRUE
    /\ wf_pc' = [wf_pc EXCEPT ![t] = "search"]
    /\ UNCHANGED <<wf_res, wf_posts, wf_cache, wf_obs, wf_main, WfRest>>

\* The three attempts of the GET: offers or an empty list go to the cache,
\* a failure of every attempt returns [].
SearchGet(t) ==
    /\ wf_pc[t] = "search"
    /\ \E outcome \in {"offers", "empty", "failed"} :
         /\ wf_res' = [wf_res EXCEPT ![t] = IF outcome = "offers" THEN "offers" ELSE "empty"]
         /\ wf_pc' = [wf_pc EXCEPT ![t] = IF outcome = "failed" THEN "finished"
                                           ELSE "cache_set"]
    /\ UNCHANGED <<wf_token, wf_posts, wf_cache, wf_obs, wf_main, WfRest>>

\* Cache.set under the lock, then the return.
CacheSet(t) ==
    /\ wf_pc[t] = "cache_set"
    /\ wf_cache' = wf_cache \cup {t}
    /\ wf_pc' = [wf_pc EXCEPT ![t] = "finished"]
    /\ UNCHANGED <<wf_res, wf_token, wf_posts, wf_obs, wf_main, WfRest>>

\* The main thread takes a finished future from as_completed: its offers
\* are appended to observacoes, an Exception is logged, SystemExit leaves
\* scrape and the program.
Collect(t) ==
    /\ wf_main = "collecting"
    /\ wf_pc[t] = "finished"
    /\ wf_pc' = [wf_pc EXCEPT ![t] = "collected"]
    /\ wf_obs' = IF wf_res[t] = "offers" THEN Append(wf_obs, t) ELSE wf_obs
    /\ wf_main' = IF wf_res[t] = "SystemExit" THEN "exit"
                  ELSE IF \A u \in ScrapeTasks \ {t} : wf_pc[u] = "collected"
                  THEN "returned" ELSE "collecting"
    /\ UNCHANGED <<wf_res, wf_token, wf_posts, wf_cache, WfRest>>

NextScrape ==
    \/ \E t \in ScrapeTasks : StartSearch(t)
    \/ \E t \in ScrapeTasks : CacheGet(t)
    \/ \E t \in ScrapeTasks : AuthCheck(t)
    \/ \E t \in ScrapeTasks : AuthPost(t)
    \/ \E t \in ScrapeTasks : AuthStore(t)
    \/ \E t \in ScrapeTasks : SearchGet(t)
    \/ \E t \in ScrapeTasks : CacheSet(t)
    \/ \E t \in ScrapeTasks : Collect(t)

\* The workflow monitor's decision, FlightMonitor._find_opportunities, on the
\* observations of a run and the history loaded at its start.  A quotient
\* (a mean, a discount, a day-drop) is kept as the pair num / den, den > 0.
MIN_DAYDROP_PCT == 30
BASELINE_WINDOW_DAYS == 30
BIN_SIZE_DAYS == 7
WfToday == 100

Frac(num, den) == [num |-> num, den |-> den]
FracGE(f, hundredths) == 100 * f.num >= hundredths * f.den
FracGT(f, g) == f.num * g.den > g.num * f.den

bucket_from_dtd(dtd) ==
    LET b0 == (dtd \div BIN_SIZE_DAYS) * BIN_SIZE_DAYS
    IN  <<b0, b0 + BIN_SIZE_DAYS - 1>>

\* A row of the history in memory, and an observation scrape makes.
HistRow(dest, bucket, date_out, ts, pp) ==
    [dest |-> dest, bucket_dtd |-> bucket, date_out |-> date_out, ts_utc |-> ts,
     price_pp |-> pp]
Observation(dest, date_out, pp, stopovers) ==
    [dest |-> dest, bucket_dtd |-> bucket_from_dtd(Max(date_out - WfToday, 0)),
     date_out |-> date_out, ts_utc |-> WfToday, price_pp |-> pp,
     stopovers |-> stopovers]

\* _normalize_for_memory, and run's self.hist.extend of it.
_normalize_for_memory(obs) ==
    [i \in 1..Len(obs) |->
        HistRow(obs[i].dest, obs[i].bucket_dtd, obs[i].date_out, obs[i].ts_utc,
                obs[i].price_pp)]

\* The rows of hist at the positions of keep, in order: one list of
\* prices_by_bucket or prices_by_date.
RECURSIVE RowsAt(_, _, _)
RowsAt(hist, keep, i) ==
    IF i > Len(hist) THEN <<>>
    ELSE (IF i \in keep THEN <<hist[i]>> ELSE <<>>) \o RowsAt(hist, keep, i + 1)

RECURSIVE SumPp(_)
SumPp(rows) == IF rows = <<>> THEN 0 ELSE Head(rows).price_pp + SumPp(Tail(rows))

\* _baseline: the mean price_pp of the (dest, bucket) rows collected within
\* BASELINE_WINDOW_DAYS, float("inf") when there is none.
_baseline(hist, dest, bucket, now_utc) ==
    LET InGroup(r) ==
            /\ r.dest = dest
            /\ r.bucket_dtd = bucket
            /\ r.ts_utc >= now_utc - BASELINE_WINDOW_DAYS
        vals == RowsAt(hist, {i \in 1..Len(hist) : InGroup(hist[i])}, 1)
    IN  IF vals = <<>> THEN [t |-> "inf", sum |-> 0, n |-> 1]
        ELSE [t |-> "mean", sum |-> SumPp(vals), n |-> Len(vals)]

\* discount = (base - price_pp) / base if base is finite and positive, else 0.
Discount(base, pp) ==
    IF base.t = "mean" /\ base.sum > 0
    THEN Frac(base.sum - base.n * pp, base.sum)
    ELSE Frac(0, 1)

\* _daydrop(dest, d_out) or 0.0: the drop from the last but one price of that
\* date to the last one, 0 with fewer than two prices or a previous price of
\* zero.
_daydrop(hist, dest, d_out) ==
    LET OfDate(r) == r.dest = dest /\ r.date_out = d_out
        relevant == RowsAt(hist, {i \in 1..Len(hist) : OfDate(hist[i])}, 1)
        n == Len(relevant)
    IN  IF n >= 2 /\ relevant[n - 1].price_pp > 0
        THEN Frac(relevant[n - 1].price_pp - relevant[n].price_pp,
                  relevant[n - 1].price_pp)
        ELSE Frac(0, 1)

\* Step 1: the destinations in the order the dict first gets them, and for
\* each the first of its cheapest observations within MAX_STOPOVERS.
Eligible(obs, limits) == {i \in 1..Len(obs) : obs[i].stopovers <= limits.max_stopovers}
RECURSIVE DestOrder(_, _, _)
DestOrder(obs, limits, i) ==
    IF i > Len(obs) THEN <<>>
    ELSE (IF i \in Eligible(obs, limits)
             /\ \A j \in Eligible(obs, limits) : j < i => obs[j].dest # obs[i].dest
          THEN <<obs[i].dest>> ELSE <<>>) \o DestOrder(obs, limits, i + 1)
BestOf(obs, limits, dest) ==
    LET mine == {i \in Eligible(obs, limits) : obs[i].dest = dest}
    IN  obs[CHOOSE i \in mine :
                \A j \in mine :
                    /\ obs[i].price_pp <= obs[j].price_pp
                    /\ (j < i => obs[i].price_pp < obs[j].price_pp)]

Opportunity(o, hist) ==
    [dest |-> o.dest, price_pp |-> o.price_pp, bucket |-> o.bucket_dtd,
     dep_date |-> o.date_out,
     discount |-> Discount(_baseline(hist, o.dest, o.bucket_dtd, WfToday), o.price_pp),
     daydrop |-> _daydrop(hist, o.dest, o.date_out)]

mut_Qualifies_sem_teto(it) ==
    FracGE(it.discount, MIN_DISCOUNT_PCT) \/ FracGE(it.daydrop, MIN_DAYDROP_PCT)

\* Step 2: the cap, and the discount or the day-drop.
Qualifies(it) ==
    /\ it.price_pp <= MAX_PRECO_PP
    /\ (FracGE(it.discount, MIN_DISCOUNT_PCT) \/ FracGE(it.daydrop, MIN_DAYDROP_PCT))

\* Step 3: list.sort(key=(-discount, price_pp)), stable.
SortsBefore(a, b) ==
    \/ FracGT(a.discount, b.discount)
    \/ (~FracGT(b.discount, a.discount) /\ a.price_pp < b.price_pp)
RECURSIVE InsertItem(_, _)
InsertItem(x, sorted) ==
    IF sorted = <<>> THEN <<x>>
    ELSE IF SortsBefore(x, Head(sorted)) THEN <<x>> \o sorted
    ELSE <<Head(sorted)>> \o InsertItem(x, Tail(sorted))
RECURSIVE SortItems(_, _)
SortItems(items, i) ==
    IF i = 0 THEN <<>> ELSE InsertItem(items[i], SortItems(items, i - 1))

RECURSIVE Candidates(_, _, _, _)
Candidates(dests, obs, hist, limits) ==
    IF dests = <<>> THEN <<>>
    ELSE LET it == Opportunity(BestOf(obs, limits, Head(dests)), hist)
         IN  (IF Qualifies(it) THEN <<it>> ELSE <<>>)
             \o Candidates(Tail(dests), obs, hist, limits)

_find_opportunities(obs, hist, limits) ==
    LET found == Candidates(DestOrder(obs, limits, 1), obs, hist, limits)
        sorted == SortItems(found, Len(found))
    IN  IF limits.max_per_dest > 0
        THEN SubSeq(sorted, 1, Min(Len(sorted), limits.max_per_dest))
        ELSE sorted

\* The observations of a run (one departure, 21 days ahead) and the rows of
\* earlier runs: of the day before, or of 40 days before for a departure
\* that was 21 days ahead then.
ObsSet ==
    {Observation(d, WfToday + 21, pp, st) :
        d \in Capitals, pp \in {900, 1500}, st \in {0, 2}}
PriorDayBefore(dest, pp) ==
    HistRow(dest, bucket_from_dtd(22), WfToday + 21, WfToday - 1, pp)
PriorLongAgo(dest, pp) ==
    HistRow(dest, bucket_from_dtd(21), WfToday - 19, WfToday - 40, pp)
PriorHistories ==
    {<<>>,
     <<PriorDayBefore("GIG", 2000)>>,
     <<PriorDayBefore("GIG", 1000)>>,
     <<PriorLongAgo("GIG", 4000)>>,
     <<PriorLongAgo("GIG", 4000), PriorDayBefore("SDU", 1300)>>,
     <<PriorDayBefore("GIG", 2000), PriorDayBefore("SDU", 2000)>>}

InitOpportunities ==
    /\ MAX_PRECO_PP = DEFAULT_MAX_PRECO_PP
    /\ MIN_DISCOUNT_PCT = DEFAULT_MIN_DISCOUNT_PCT
    /\ arg_obs \in SeqsUpTo(ObsSet, MaxObs)
    /\ arg_hist \in PriorHistories
    /\ arg_limits \in [max_per_dest : {0, 1}, max_stopovers : {1, 99}]
    /\ ret_opps = NotCalled
    /\ BucketIdle
    /\ HttpIdle
    /\ BuildIdle
    /\ WfIdle
    /\ FnIdle
    /\ EnvIdle
    /\ RunIdle

\* run, from the extension of self.hist to the call of _find_opportunities.
FindOpportunities ==
    /\ ret_opps = NotCalled
    /\ ret_opps' = [t |-> "returned",
                    items |-> _find_opportunities(
                                arg_obs, arg_hist \o _normalize_for_memory(arg_obs),
                                arg_limits)]
    /\ UNCHANGED <<arg_obs, arg_hist, arg_limits, bucketVars, httpVars, buildVars,
                   wfVars, cfgVars, envVars, fnVars, runVars>>

\* The script as it is started: the environment decides the credentials, the
\* Telegram settings, the destinations and whether baselines.json exists.
Env ==
    /\ MAX_PRECO_PP = DEFAULT_MAX_PRECO_PP
    /\ MIN_DISCOUNT_PCT = DEFAULT_MIN_DISCOUNT_PCT
    /\ credentials \in BOOLEAN
    /\ telegram_configured \in BOOLEAN
    /\ baselines \in {NoBaselines, SomeBaselines}

\* One run over two destinations.
Init ==
    /\ Env
    /\ DESTINOS = TwoDestinos
    /\ FnIdle
    /\ CallIdle
    /\ RunIdle

Next ==
    \/ GetToken
    \/ ProcessDate

\* Scheduled runs, one after the other, over one destination and without a
\* baselines file.
InitRuns ==
    /\ Env
    /\ baselines = NoBaselines
    /\ DESTINOS = OneDestino
    /\ FnIdle
    /\ CallIdle
    /\ RunIdle

NextRuns ==
    \/ GetToken
    \/ ProcessDate
    \/ StartRun

vars == <<cfgVars, envVars, fnVars, runVars, callVars>>

Spec == Init /\ [][Next]_vars
SpecRuns == InitRuns /\ [][NextRuns]_vars
SpecBuckets == InitBuckets /\ [][NextBuckets]_vars
SpecHttp == InitHttp /\ [][NextHttp]_vars
SpecBaselines == InitBaselines /\ [][BuildBaselines]_vars
SpecScrape == InitScrape /\ [][NextScrape]_vars
SpecOpportunities == InitOpportunities /\ [][FindOpportunities]_vars
SpecAlertar == InitAlertar /\ [][CallDeveAlertar]_vars
SpecCheapest == InitCheapest /\ [][CallFindCheapest]_vars

----------------------------------------------------------------------------
(* Properties of deve_alertar, under SpecAlertar *)

Called == ret_deve_alertar # NotCalled
PrecoNum == arg_preco_atual.t = "num"
MelhorFinitePositive == arg_melhor_anterior.t = "num" /\ arg_melhor_anterior.v > 0
\* (melhor - preco) / melhor >= MIN_DISCOUNT_PCT, for a positive melhor.
DropReached ==
    100 * (arg_melhor_anterior.v - arg_preco_atual.v)
        >= MIN_DISCOUNT_PCT * arg_melhor_anterior.v

\* C1: a price at or below the cap always alerts, with the reason that cites
\* the cap, whatever previous_best is; the cap rule wins over the drop rule.
C1_CapAlwaysAlerts ==
    (Called /\ PrecoNum /\ arg_preco_atual.v <= MAX_PRECO_PP)
        => ret_deve_alertar = Retorno(TRUE, Motivo("teto", MAX_PRECO_PP))

\* A call where both rules apply (price under the cap, drop reached) answered
\* with the cap reason.
C1_Witness ==
    /\ Called /\ PrecoNum /\ arg_preco_atual.v <= MAX_PRECO_PP
    /\ arg_preco_atual.v > 0
    /\ MelhorFinitePositive /\ DropReached
    /\ ret_deve_alertar.motivo.kind = "teto"

\* C2: above the cap and with a finite positive previous_best, the alert
\* fires exactly when the relative drop reaches MIN_DISCOUNT_PCT; it then
\* carries the drop reason, and otherwise the result is (False, "sem queda
\* significativa").
C2_DropRuleIff ==
    (Called /\ PrecoNum /\ arg_preco_atual.v > MAX_PRECO_PP /\ MelhorFinitePositive)
        => /\ ret_deve_alertar.alert <=> DropReached
           /\ ret_deve_alertar.alert => ret_deve_alertar.motivo.kind = "queda"
           /\ ~ret_deve_alertar.alert
                => ret_deve_alertar
                     = Retorno(FALSE, Motivo("sem queda significativa", 0))

\* A drop of exactly MIN_DISCOUNT_PCT above the cap, answered with an alert.
C2_Witness ==
    /\ Called /\ PrecoNum /\ arg_preco_atual.v > MAX_PRECO_PP
    /\ MelhorFinitePositive
    /\ 100 * (arg_melhor_anterior.v - arg_preco_atual.v)
           = MIN_DISCOUNT_PCT * arg_melhor_anterior.v
    /\ ret_deve_alertar.alert
    /\ ret_deve_alertar.motivo = Motivo("queda", MIN_DISCOUNT_PCT)

\* C3: a previous_best of None, infinity or zero is no baseline: the call
\* returns (it does not raise), never by the drop rule, and above the cap it
\* returns (False, "sem queda significativa").
C3_NoBaselineSkipsDropRule ==
    (Called /\ arg_melhor_anterior \in {None, Inf, Num(0)})
        => /\ ret_deve_alertar.t = "returned"
           /\ ret_deve_alertar.motivo.kind # "queda"
           /\ (PrecoNum /\ arg_preco_atual.v > MAX_PRECO_PP)
                => ret_deve_alertar
                     = Retorno(FALSE, Motivo("sem queda significativa", 0))

\* A price above the cap compared with a previous_best of zero.
C3_Witness ==
    /\ Called /\ PrecoNum /\ arg_preco_atual.v > MAX_PRECO_PP
    /\ arg_melhor_anterior = Num(0)
    /\ ret_deve_alertar = Retorno(FALSE, Motivo("sem queda significativa", 0))

\* C4: a negative or non-numeric price is refused with the validation
\* failure; no alert is ever computed from it.
C4_InvalidPriceRefused ==
    (Called /\ (~PrecoNum \/ arg_preco_atual.v < 0))
        => /\ ~ret_deve_alertar.alert
           /\ ret_deve_alertar.motivo.kind = "valor invalido"

\* C30: with MIN_DISCOUNT_PCT > 0, an alert by the drop rule means that the
\* price is strictly below previous_best, whatever number previous_best is;
\* a price at or above it never gives a drop alert.
C30_DropAlertMeansLowerPrice ==
    (Called /\ MIN_DISCOUNT_PCT > 0 /\ ret_deve_alertar.motivo.kind = "queda")
        => /\ ret_deve_alertar.alert
           /\ PrecoNum
           /\ arg_melhor_anterior.t = "num"
           /\ arg_preco_atual.v < arg_melhor_anterior.v

----------------------------------------------------------------------------
(* Properties of find_cheapest_offer, under SpecCheapest *)

Selected == ret_find_cheapest # NotCalled
cheapest == ret_find_cheapest.v[1]
WellFormed(x) == x.price = "ok"
DataOffers == {arg_payload.data[i] : i \in 1..Len(arg_payload.data)}

\* C5: with at least one well-formed offer in the list, the selector returns
\* a well-formed offer of the list whose total is the minimum over the
\* well-formed ones; malformed offers are passed over one by one.
C5_MinimumAmongWellFormed ==
    (Selected /\ \E x \in DataOffers : WellFormed(x))
        => /\ cheapest \in DataOffers
           /\ WellFormed(cheapest)
           /\ \A x \in DataOffers : WellFormed(x) => cheapest.total <= x.total

\* C6: the selector returns no offer for an empty list and for a list where
\* no offer has a parsable price, and never returns an offer without one.
C6_NoneWithoutParsablePrice ==
    Selected
        => /\ (cheapest # NoOffer => WellFormed(cheapest))
           /\ (\A x \in DataOffers : ~WellFormed(x)) => cheapest = NoOffer

\* C16: for a payload of well-formed offers the value returned is the
\* cheapest offer record itself, with the minimum total of the payload, and
\* that record carries an 'airline' field.
C16_ReturnsOfferWithAirline ==
    (Selected /\ arg_payload.data # <<>> /\ \A x \in DataOffers : WellFormed(x))
        => /\ ret_find_cheapest.t = "dict"
           /\ ret_find_cheapest.v \in DataOffers
           /\ \A x \in DataOffers : ret_find_cheapest.v.total <= x.total
           /\ "airline" \in DOMAIN ret_find_cheapest.v

----------------------------------------------------------------------------
(* Properties of the run, under Spec *)

\* C7: whatever the vendor answers during a destination's searches, the run
\* does not end abnormally: no exception of a search or of an offer of its
\* payload leaves process_destino.
C7_VendorOutcomeNeverAborts == crash \notin {"RuntimeError", "KeyError"}

\* C8: without credentials the run exits before any HTTP request, history
\* write or notification, and that is the only failure that ends a run: with
\* credentials no run ends in sys.exit or in an exception.
C8_OnlyMissingCredentialsAbort ==
    /\ ~credentials
         => ~http_used /\ history = <<>> /\ telegram = TelegramIdle
            /\ pc \in {"start", "exit"}
    /\ credentials => pc \notin {"exit", "crashed"}

\* Where main's loops stand after the pass at hand.
NextPosition ==
    IF date_j < SAMPLE_DEPARTURES THEN <<"loop", dest_i, date_j + 1>>
    ELSE IF dest_i < Len(DESTINOS) THEN <<"loop", dest_i + 1, 1>>
    ELSE <<"done", dest_i, date_j>>

\* C9: a pass whose Telegram send fails has sent one request, not more, has
\* appended the offer's row to the history all the same, and leaves the run
\* at the next date or destination (or at its normal end).
C9_SendFailureDoesNotBlock ==
    [][(pc = "loop" /\ telegram'.result = "failed")
          => /\ telegram'.requests = 1
             /\ Len(history') = Len(history) + 1
             /\ SubSeq(history', 1, Len(history)) = history
             /\ history'[Len(history')].destino = destino
             /\ <<pc', dest_i', date_j'>> = NextPosition
             /\ crash' = "none"]_vars

\* A failed send for the last date of the first destination, its row in the
\* history and the run at the second destination.
C9_Witness ==
    /\ telegram.result = "failed"
    /\ telegram.destino = DESTINOS[1]
    /\ pc = "loop" /\ dest_i = 2 /\ date_j = 1
    /\ history # <<>>
    /\ history[Len(history)].destino = DESTINOS[1]

\* C10: once Telegram has accepted a message for a route, no further message
\* goes out for that route before COOLDOWN_HOURS have passed.
C10_CooldownBetweenNotifications ==
    (telegram.result = "ok" /\ telegram.prev # -1)
        => now - telegram.prev >= COOLDOWN_HOURS

\* The pass just run got as far as an offer with a price.
Priced == locals.t \in {"recorded", "raised"} /\ locals.c # NoBody
Recorded == locals.t = "recorded"
LastRow == history[Len(history)]
\* The dates base - k and base + k, k = 1..CALENDAR_SWEEP_DAYS.
NeighbourDates(base) ==
    {base - k : k \in 1..CALENDAR_SWEEP_DAYS} \cup {base + k : k \in 1..CALENDAR_SWEEP_DAYS}
\* The original price and the neighbours' cheapest prices.
PricesSeen ==
    {locals.c.price0} \cup {locals.c.found[k].total : k \in 1..Len(locals.c.found)}

SendAttempted == telegram.result \in {"ok", "failed", "unconfigured"}
\* COOLDOWN_HOURS have passed since the route's last alert, or it has none.
CooldownAllows(route) ==
    last_alerts[route] = NoTs \/ now - last_alerts[route].h >= COOLDOWN_HOURS
\* deve_alertar alerted, or the score reaches SCORE_ALERT_MIN, or there is a
\* p25 baseline and the price is at or below it.
TriggerHolds(l) ==
    \/ l.c.alert
    \/ l.c.score >= SCORE_ALERT_MIN
    \/ (l.c.p25.t = "num" /\ l.c.price <= l.c.p25.v)

\* C22: a pass that processes an offer attempts a Telegram send if and only
\* if the route's cooldown allows it and a trigger holds; without a trigger
\* no send is attempted and the cooldown timestamp stays as it was.
C22_SendIffCooldownAndTrigger ==
    [][(pc = "loop" /\ locals'.t = "recorded")
          => /\ SendAttempted' <=> (CooldownAllows(destino) /\ TriggerHolds(locals'))
             /\ ~TriggerHolds(locals')
                  => ~SendAttempted' /\ last_alerts' = last_alerts]_vars

\* C25: the row of a pass has notified = 1, and the route's cooldown
\* timestamp is written, only if Telegram accepted the message; with Telegram
\* unconfigured or the send failed the row has notified = 0 and the cooldown
\* file is as it was.
C25_NotifiedOnlyIfDelivered ==
    [][(pc = "loop" /\ locals'.t = "recorded")
          => /\ history'[Len(history')].notified => telegram'.result = "ok"
             /\ last_alerts' # last_alerts => telegram'.result = "ok"
             /\ telegram'.result \in {"failed", "unconfigured"}
                  => /\ ~history'[Len(history')].notified
                     /\ last_alerts' = last_alerts]_vars

\* deve_alertar on the price the pass recorded and the route's previous best.
DecisionOnRecorded == deve_alertar(Num(LastRow.price_total), locals.c.melhor_anterior)

\* C26: the alert decision and the reason a recorded pass carries are those
\* of deve_alertar applied to the recorded price and the route's previous
\* best, also when the sweep replaced the price.
C26_DecisionMatchesRecordedPrice ==
    Recorded
        => /\ locals.c.alert = DecisionOnRecorded.alert
           /\ locals.c.motivo = DecisionOnRecorded.motivo
           /\ LastRow.notified => LastRow.reason = DecisionOnRecorded.motivo

\* The minimum of the prices the rows hold for a route, inf without a row.
RoutePrices(rows, route) ==
    {rows[i].price_total : i \in {j \in 1..Len(rows) : rows[j].destino = route}}
MinRecorded(rows, route) ==
    IF RoutePrices(rows, route) = {} THEN Inf
    ELSE Num(CHOOSE p \in RoutePrices(rows, route) :
                \A q \in RoutePrices(rows, route) : p <= q)
\* a <= b for best prices, inf being above every number.
BestLE(a, b) == b.t = "inf" \/ (a.t = "num" /\ a.v <= b.v)

\* C28: in a run, a pass that records an offer has given deve_alertar the
\* minimum of the prices recorded before it for the route (inf for the
\* route's first offer, which then alerts by the cap rule only), and leaves
\* melhores of the route at the minimum of the prices recorded so far; no
\* entry of melhores ever increases.
C28_BestIsRunningMinimum ==
    [][(pc = "loop" /\ locals'.t = "recorded")
          => /\ locals'.c.melhor_anterior = MinRecorded(history, destino)
             /\ melhores'[destino] = MinRecorded(history', destino)
             /\ \A d \in Destinos : BestLE(melhores'[d], melhores[d])
             /\ (RoutePrices(history, destino) = {} /\ locals'.c.alert)
                  => locals'.c.motivo.kind = "teto"]_vars

\* A route's second offer, cheaper than its first: deve_alertar got the
\* first price and melhores holds the second.
C28_Witness ==
    /\ Recorded
    /\ Len(history) = 2
    /\ history[1].destino = history[2].destino
    /\ history[2].price_total < history[1].price_total
    /\ locals.c.melhor_anterior = Num(history[1].price_total)
    /\ melhores[history[2].destino] = Num(history[2].price_total)

----------------------------------------------------------------------------
(* Properties of successive runs, under SpecRuns *)

\* C11: across the runs the history log is append-only: every step leaves the
\* rows written so far present, unmodified and at the same positions, and
\* only adds rows after them.
C11_HistoryAppendOnly ==
    [][/\ Len(history') >= Len(history)
       /\ SubSeq(history', 1, Len(history)) = history]_vars

\* A second run that has added a row after the two rows of the first run.
C11_Witness ==
    /\ runs = 2
    /\ Len(history) = SAMPLE_DEPARTURES + 1

----------------------------------------------------------------------------
(* Properties of the days-to-departure buckets, under SpecBuckets *)

InRange(dd, label) == BucketRange(label).lo <= dd /\ dd <= BucketRange(label).hi

\* C13: days_to_departure is max(0, departure - collected), and the label
\* returned for it is the one bucket of the fixed set whose range lo-hi
\* contains it.
C13_BucketContainsDays ==
    ret_bucket # NotCalled
        => /\ ret_bucket.dd = Max(0, arg_dep - arg_collected)
           /\ ret_bucket.bucket \in Buckets
           /\ \A b \in Buckets : InRange(ret_bucket.dd, b) <=> b = ret_bucket.bucket

\* C29: for every route, departure day and collection day, the key under
\* which build_baselines writes the baseline of a row is the key
\* lookup_baseline_p25 computes for the same route and days, and the monitor
\* finds the p25 stored.
C29_BuildAndLookupKeysAgree ==
    ret_keys # NotCalled
        => /\ ret_keys.written = {ret_keys.looked_up}
           /\ ret_keys.p25.t = "num"
           /\ ret_keys.found = ret_keys.p25

\* A departure more than 90 days after the collection, past the last
\* bucket's range: both sides still use the same key.
C29_Witness ==
    /\ ret_keys # NotCalled
    /\ arg_dep - arg_collected > 90
    /\ ret_keys.looked_up[3] = "70-90"
    /\ ret_keys.found = Num(1000)

----------------------------------------------------------------------------
(* Properties of the HTTP functions, under SpecHttp *)

\* The answer of the last attempt buscar_passagens's request made.
FinalAnswer ==
    IF ReturningAttempt(arg_answers) # 0
    THEN arg_answers[ReturningAttempt(arg_answers)]
    ELSE arg_answers[tries]
\* How many attempts failed: raised, or answered with a retryable status.
Failed(i) == arg_answers[i].exc \/ Retryable(arg_answers[i].status)

\* C17: buscar_passagens searches with a GET through requests.request; when
\* the final response has status 200 it returns that response's JSON payload
\* unchanged, and for any other final status or a transport error it returns
\* None.
C17_SearchReturnsPayloadOrNone ==
    ret_buscar # NotCalled
        => /\ ret_buscar.method = "GET"
           /\ ret_buscar.via = "requests.request"
           /\ IF ~FinalAnswer.exc /\ FinalAnswer.status = 200
              THEN ret_buscar.t = "payload" /\ ret_buscar.payload = arg_body
              ELSE ret_buscar.t = "none"

\* C18: get_token obtains the token with a POST through requests.request and
\* returns the access_token field of the 200 response.
C18_TokenThroughGenericRequest ==
    (ret_token # NotCalled /\ ~arg_answers[1].exc /\ arg_answers[1].status = 200)
        => /\ ret_token.t = "token"
           /\ ret_token.field = "access_token"
           /\ ret_token.method = "POST"
           /\ ret_token.via = "requests.request"

\* C19: _request_with_retry makes at most 3 attempts and sleeps 2, 4, 8
\* seconds after the failed ones; it returns the first response whose status
\* is not retryable, and raises when there is none: it never returns a
\* response with a retryable status.
C19_RetryBoundedAndNeverRetryable ==
    ret_request # NotCalled
        => /\ ret_request.requests <= 3
           /\ ret_request.slept
                = SubSeq(<<2, 4, 8>>, 1, Cardinality({i \in 1..ret_request.requests : Failed(i)}))
           /\ ret_request.t = "response"
                => /\ ~Retryable(ret_request.status)
                   /\ ~Failed(ret_request.requests)
                   /\ ret_request.status = arg_answers[ret_request.requests].status
                   /\ \A j \in 1..(ret_request.requests - 1) : Failed(j)
           /\ (\A i \in 1..tries : Failed(i))
                => ret_request.t \in {"RequestException", "RuntimeError"}

\* Three retryable statuses in a row: three attempts, three sleeps, an
\* exception and no response.
C19_Witness ==
    /\ ret_request # NotCalled
    /\ \A i \in 1..tries : ~arg_answers[i].exc /\ Retryable(arg_answers[i].status)
    /\ ret_request.t = "RuntimeError"
    /\ ret_request.slept = <<2, 4, 8>>

\* An attempt of the workflow monitor's GET that gave no offers: an
\* exception, a 429 or another status that is not 200.
NoOffers(i) == arg_answers[i].exc \/ arg_answers[i].status # 200
Searched2 == ret_search # NotCalled

----------------------------------------------------------------------------
(* Properties of the baselines build, under SpecBaselines *)

Built == ret_baselines # NotCalled
WithinWindow(row) == arg_days[1] - row.ts <= BASELINE_WINDOW_DAYS
\* The rows of the first log collected within the window before its build.
RECURSIVE Recent(_, _)
Recent(log, i) ==
    IF i > Len(log) THEN <<>>
    ELSE (IF WithinWindow(log[i]) THEN <<log[i]>> ELSE <<>>) \o Recent(log, i + 1)

\* C14: a baseline aggregates only the observations of its group collected
\* within the trailing window: the baselines built from a log are those of
\* its rows within the window, an older row contributes nothing.
C14_BaselineWithinWindow ==
    Built => ret_baselines.first = build_baselines(Recent(arg_log, 1))

\* C15: baselines are a function of the rows of the log alone: two builds
\* over the same rows, in another order and on another day, give the same
\* baselines.
C15_BaselinesPureFunction ==
    Built => ret_baselines.first = ret_baselines.second

\* Three prices of one key given in two different orders, neither sorted,
\* to builds on different days, with the percentiles computed.
C15_Witness ==
    /\ Built
    /\ Len(arg_log) = 3
    /\ arg_log # arg_log2
    /\ arg_days[1] # arg_days[2]
    /\ arg_log[1].price = Num(2000) /\ arg_log2[1].price = Num(1500)
    /\ \E key \in DOMAIN ret_baselines.first :
          ret_baselines.first[key].p25 = Num(1000)

\* The rows of the first log that belong to a key: dates that parse and a
\* finite positive price.
RowsOfKey(key) ==
    {i \in 1..Len(arg_log) :
        /\ arg_log[i].dep # BadDate /\ arg_log[i].ts # BadDate
        /\ arg_log[i].price.t = "num" /\ arg_log[i].price.v > 0
        /\ KeyOf(arg_log[i]) = key}
PricesOfKey(key) == {arg_log[i].price : i \in RowsOfKey(key)}
AllKeys == {BaselineKey(d, w, b) : d \in Capitals, w \in 0..6, b \in Buckets}

\* C24: the build ends whatever the rows are, and writes a baseline for
\* exactly the keys that have a row with dates that parse and a finite
\* positive price; its p50, and p10 and p25 of a key with 3 rows or more, are
\* prices of the key's rows with p10 <= p25 <= p50; a key with fewer than 3
\* rows has p10 and p25 null.
C24_PercentilesFromObservedPrices ==
    Built
        => /\ ret_baselines.t = "built"
           /\ DOMAIN ret_baselines.first = {key \in AllKeys : RowsOfKey(key) # {}}
           /\ \A key \in DOMAIN ret_baselines.first :
                 LET b == ret_baselines.first[key]
                 IN  /\ b.p50 \in PricesOfKey(key)
                     /\ IF Cardinality(RowsOfKey(key)) < 3
                        THEN b.p10 = None /\ b.p25 = None
                        ELSE /\ b.p10 \in PricesOfKey(key)
                             /\ b.p25 \in PricesOfKey(key)
                             /\ b.p10.v <= b.p25.v /\ b.p25.v <= b.p50.v

\* A row whose date does not parse and a row with a zero price around one
\* good row: the build goes on and the key gets its p50 alone.
C24_Witness ==
    /\ Built
    /\ Len(arg_log) = 3
    /\ arg_log[1].dep = BadDate
    /\ arg_log[2].price = Num(1500) /\ arg_log[2].dep # BadDate
    /\ arg_log[3].price = Num(0)
    /\ \E key \in DOMAIN ret_baselines.first :
          ret_baselines.first[key] = [p10 |-> None, p25 |-> None, p50 |-> Num(1500)]

----------------------------------------------------------------------------
(* Properties of the workflow monitor's scrape, under SpecScrape *)

\* C12: the run is sequential: no two searches, token refreshes or cache
\* accesses of one run are under way at the same time.
C12_OneSearchAtATime ==
    \A t, u \in ScrapeTasks : (Running(t) /\ Running(u)) => t = u

----------------------------------------------------------------------------
(* Properties of the workflow monitor's decision, under SpecOpportunities *)

Decided == ret_opps # NotCalled
Reported == {ret_opps.items[i].dest : i \in 1..Len(ret_opps.items)}
HistAtDecision == arg_hist \o _normalize_for_memory(arg_obs)
\* The observations of a destination within MAX_STOPOVERS with its lowest
\* price_pp.
Lowest(dest) ==
    {i \in 1..Len(arg_obs) :
        /\ arg_obs[i].dest = dest
        /\ arg_obs[i].stopovers <= arg_limits.max_stopovers
        /\ \A j \in 1..Len(arg_obs) :
              (arg_obs[j].dest = dest /\ arg_obs[j].stopovers <= arg_limits.max_stopovers)
                  => arg_obs[i].price_pp <= arg_obs[j].price_pp}
\* The criteria for observation i: the cap, and the discount or the day-drop,
\* an infinite baseline counting as discount 0.
Meets(i) ==
    LET base == _baseline(HistAtDecision, arg_obs[i].dest, arg_obs[i].bucket_dtd, WfToday)
        drop == _daydrop(HistAtDecision, arg_obs[i].dest, arg_obs[i].date_out)
    IN  /\ arg_obs[i].price_pp <= MAX_PRECO_PP
        /\ \/ /\ base.t = "mean" /\ base.sum > 0
              /\ 100 * (base.sum - base.n * arg_obs[i].price_pp)
                    >= MIN_DISCOUNT_PCT * base.sum
           \/ 100 * drop.num >= MIN_DAYDROP_PCT * drop.den
Deserving == {d \in Capitals : Lowest(d) # {} /\ \A i \in Lowest(d) : Meets(i)}

\* C20: a destination is reported only if its lowest observation within
\* MAX_STOPOVERS meets the criteria, at most once, and every destination
\* whose lowest observation meets them is reported as far as the global
\* limit MAX_PER_DEST allows (all of them when the limit is 0).
C20_ReportedIffCriteria ==
    Decided
        => /\ \A d \in Reported : \E i \in Lowest(d) : Meets(i)
           /\ Len(ret_opps.items) = Cardinality(Reported)
           /\ IF arg_limits.max_per_dest > 0
              THEN Cardinality(Reported)
                     = Min(Cardinality(Deserving), arg_limits.max_per_dest)
              ELSE Reported = Deserving

\* Equal quotients.
FracEq(f, g) == f.num * g.den = g.num * f.den
\* The prices the rows loaded at start hold for a destination and departure.
PriorPrices(dest, d_out) ==
    {arg_hist[i].price_pp :
        i \in {j \in 1..Len(arg_hist) :
                  /\ arg_hist[j].dest = dest
                  /\ arg_hist[j].date_out = d_out
                  /\ arg_hist[j].ts_utc < WfToday}}

\* C27: the discount of a reported observation is taken against the
\* baseline of the rows recorded before the run, and its day-drop, when
\* there is one, against a price of an earlier collection.
C27_BaselineFromEarlierRunsOnly ==
    Decided
        => \A k \in 1..Len(ret_opps.items) :
              LET it == ret_opps.items[k]
              IN  /\ FracEq(it.discount,
                            Discount(_baseline(arg_hist, it.dest, it.bucket, WfToday),
                                     it.price_pp))
                  /\ it.daydrop.num # 0
                       => it.daydrop.den \in PriorPrices(it.dest, it.dep_date)

\* Two destinations meet the criteria, one of them through an observation
\* with too many stopovers left aside, and the limit of one report holds
\* the second back.
C20_Witness ==
    /\ Decided
    /\ Cardinality(Deserving) = 2
    /\ arg_limits = [max_per_dest |-> 1, max_stopovers |-> 1]
    /\ \E i \in 1..Len(arg_obs) : arg_obs[i].stopovers > 1
    /\ Len(ret_opps.items) = 1

====
